---- MODULE Spec2Model ----
(***************************************************************************)
(* A model of reddit_cnn.py: the hyperparameter permutation planner, the   *)
(* fold provider, the logistic regression benchmark, the confirmation gate *)
(* and the configuration / fold evaluation loop.                           *)
(*                                                                         *)
(* Conventions.  A float is modelled as an integer number of hundredths    *)
(* (dropout 0.25 is 25, --split 0.2 is 20).  A Python tuple or list is a   *)
(* TLA+ sequence.  An index array is modelled by the set of its indices.   *)
(* An uncaught Python exception moves pc to "crashed" and records its name *)
(* in error.  A Python global that has not been assigned yet is absent     *)
(* from the set defined; reading it raises NameError.                      *)
(***************************************************************************)
EXTENDS Integers, Sequences, FiniteSets, TLC

\* ------------------------------------------------------------- bounds
\* longest hyperparameter axis given on the command line
MaxAxis == 2
\* largest --kfold given on the command line
MaxK == 3
\* largest dataset (rows of X) the fold provider is tried on
MaxRows == 5
\* rows of X in a whole run
Rows == 3

\* ------------------------------------------------------ input alphabets
FilterVals == <<3, 5, 7, 9>>
DropoutVals == <<25, 50, 10, 75>>
ActVals == <<"relu", "tanh", "sigmoid", "linear">>
Modes == {"simple", "twolayer", "parallel", "lstm"}
\* --split in hundredths; 20 is the parser's default
Splits == {20, 50, 90, 100}

\* The sequences over S of length lo..hi: what nargs='*' can collect.
SeqsOf(S, lo, hi) == UNION {[1..n -> S] : n \in lo..hi}

VARIABLES
    args,          \* the argparse namespace (a record)
    pc,            \* position in the script
    error,         \* name of the uncaught exception, "" if none
    defined,       \* names of the Python globals assigned so far
    files,         \* names of the files opened for writing so far
    rows,          \* X.shape[0]
    folds,         \* list of <<train, test>> index sets
    holdout,       \* <<X_train/y_train rows, X_test/y_test rows>>
    lrCalls,       \* lr_train calls made by the benchmark
    models,        \* the planned configurations
    reported,      \* the count printed by "Found ... possible models", -1 before
    answer,        \* the user's answer at the gate: "none", "yes", "no"
    mi,            \* index in models of the configuration in the loop, 0 before
    model,         \* the object bound to the global 'model'
    instantiated,  \* every model object constructed, in order
    noArchMsgs,    \* times "No valid architecture" was printed
    summaries,     \* indices of the configurations whose summary was printed
    j,             \* fold loop variable
    metrics,       \* the metrics DataFrame of the current configuration
    trainLog,      \* the model.train calls made: <<configuration, fold>>
    reports,       \* per configuration printed: [cfg, table, mean]
    failedCfg      \* configuration whose constructor or train call raised, 0 if none

vars == <<args, pc, error, defined, files, rows, folds, holdout, lrCalls, models,
          reported, answer, mi, model, instantiated, noArchMsgs, summaries, j,
          metrics, trainLog, reports, failedCfg>>

\* ------------------------------------------------------- initial states
\* The global 'model' before any constructor has run.
NoModel == [arch |-> "none", cfg |-> 0, filter_size |-> 0, filter_widths |-> <<>>,
            dropout_p |-> 0, activation |-> "", trained |-> <<>>]

Namespace(f, d, a, m, k, s, dry, lr, plot) ==
    [filters |-> f, dropout |-> d, activation |-> a, model |-> m, kfold |-> k,
     split |-> s, dry |-> dry, logreg |-> lr, plot |-> plot,
     logfile |-> "out", outfile |-> "out"]

Blank(a, p, n) ==
    /\ args = a
    /\ pc = p
    /\ error = ""
    /\ defined = {}
    /\ files = {}
    /\ rows = n
    /\ folds = <<>>
    /\ holdout = <<{}, {}>>
    /\ lrCalls = 0
    /\ models = <<>>
    /\ reported = -1
    /\ answer = "none"
    /\ mi = 0
    /\ model = NoModel
    /\ instantiated = <<>>
    /\ noArchMsgs = 0
    /\ summaries = <<>>
    /\ j = 0
    /\ metrics = <<>>
    /\ trainLog = <<>>
    /\ reports = <<>>
    /\ failedCfg = 0

\* The planner on its own: every non-empty axis over a few values, every
\* architecture mode, the script standing right before the planner.
InitPlan ==
    \E f \in SeqsOf({3, 5}, 1, MaxAxis), d \in SeqsOf({10, 25, 50}, 1, MaxAxis),
       a \in SeqsOf({"relu", "tanh"}, 1, MaxAxis), m \in Modes :
        Blank(Namespace(f, d, a, m, 0, 20, FALSE, FALSE, FALSE), "plan", Rows)


\* ------------------------------------------------------------ logging
\* vis.Tee(name, 'w'): opens the file name for writing and duplicates stdout
\* into it; fs is the set of files that exist.
Tee(fs, name) == fs \cup {name}

LogName(a) == <<a.logfile, ".txt">>
PdfName(a) == <<a.outfile, "-outputs.pdf">>
GraphName(a) == <<a.outfile, "-model.png">>

\* if (args.logfile is not None): log1 = vis.Tee(args.logfile + ".txt", 'w')
InitLogging ==
    /\ pc = "logging"
    /\ files' = IF args.logfile # "None" THEN Tee(files, LogName(args)) ELSE files
    /\ pc' = "hyper"
    /\ UNCHANGED <<args, error, defined, rows, folds, holdout, lrCalls, models,
                   reported, answer, mi, model, instantiated, noArchMsgs,
                   summaries, j, metrics, trainLog, reports, failedCfg>>

\* dropout_p = args.dropout[0]; activation = args.activation[0];
\* filter_size = args.filters[0]: indexing an empty list raises IndexError.
PermanentHyper ==
    /\ pc = "hyper"
    /\ IF Len(args.dropout) = 0 \/ Len(args.activation) = 0 \/ Len(args.filters) = 0
       THEN /\ pc' = "crashed"
            /\ error' = "IndexError"
            /\ defined' = defined \cup
                   (IF Len(args.dropout) = 0 THEN {}
                    ELSE IF Len(args.activation) = 0 THEN {"dropout_p"}
                    ELSE {"dropout_p", "activation"})
       ELSE /\ pc' = "folds"
            /\ error' = error
            /\ defined' = defined \cup {"dropout_p", "activation", "filter_size"}
    /\ UNCHANGED <<args, files, rows, folds, holdout, lrCalls, models, reported,
                   answer, mi, model, instantiated, noArchMsgs, summaries, j,
                   metrics, trainLog, reports, failedCfg>>

\* ------------------------------------------------------- fold provider
Indices(n) == 0..(n - 1)

\* Mutant: the remainder n % k is not spread over the first folds.
FoldSizeNoRemainder(n, k, i) == n \div k

\* KFold._iter_test_indices: fold_sizes = full(k, n // k);
\* fold_sizes[:n % k] += 1
FoldSize(n, k, i) == (n \div k) + (IF i <= n % k THEN 1 ELSE 0)

\* current = 0; for fold_size in fold_sizes: start, stop = current,
\* current + fold_size; yield indices[start:stop]; current = stop
RECURSIVE FoldStart(_, _, _)
FoldStart(n, k, i) ==
    IF i = 1 THEN 0 ELSE FoldStart(n, k, i - 1) + FoldSize(n, k, i - 1)

KFoldTest(n, k, i) == FoldStart(n, k, i)..(FoldStart(n, k, i) + FoldSize(n, k, i) - 1)

\* folds = [[train, test] for train, test in kf.split(X)]
KFoldSplit(n, k) ==
    [i \in 1..k |-> <<Indices(n) \ KFoldTest(n, k, i), KFoldTest(n, k, i)>>]

\* KFold(n_splits=k) raises ValueError for k <= 1, split(X) for k > n_samples.
KFoldRaises(n, k) == k <= 1 \/ k > n

\* train_test_split with a float test_size: n_test = ceil(test_size * n),
\* n_train = n - n_test.
NTest(n, s) == (s * n + 99) \div 100

\* A float test_size >= 1.0 raises ValueError.
SplitRaises(n, s) == s >= 100

\* n_train = 0: a scikit-learn that checks for an empty train set raises
\* ValueError, an older one returns the empty train set.
MayRaiseEmptyTrain(n, s) == NTest(n, s) >= n

\* ind_test = permutation[:n_test]; ind_train = permutation[n_test:]
\* for a random permutation of the indices: any n_test of them are the test set.
Holdouts(n, s) ==
    {<<Indices(n) \ t, t>> : t \in {u \in SUBSET Indices(n) : Cardinality(u) = NTest(n, s)}}

\* if (args.kfold > 0): kf = KFold(n_splits=args.kfold); folds = [...]
\* else: X_train, X_test, y_train, y_test, idx1, idx2 = train_test_split(...);
\*       folds = [[idx1, idx2]]
MakeFolds ==
    /\ pc = "folds"
    /\ IF args.kfold > 0
       THEN IF KFoldRaises(rows, args.kfold)
            THEN /\ pc' = "crashed"
                 /\ error' = "ValueError"
                 /\ UNCHANGED <<folds, holdout, defined>>
            ELSE /\ folds' = KFoldSplit(rows, args.kfold)
                 /\ defined' = defined \cup {"kf", "folds"}
                 /\ pc' = "logreg"
                 /\ UNCHANGED <<error, holdout>>
       ELSE IF SplitRaises(rows, args.split)
            THEN /\ pc' = "crashed"
                 /\ error' = "ValueError"
                 /\ UNCHANGED <<folds, holdout, defined>>
            ELSE \/ \E h \in Holdouts(rows, args.split) :
                       /\ holdout' = h
                       /\ folds' = <<h>>
                       /\ defined' = defined \cup {"X_train", "X_test", "y_train",
                                                  "y_test", "idx1", "idx2", "folds"}
                       /\ pc' = "logreg"
                       /\ error' = error
                 \/ /\ MayRaiseEmptyTrain(rows, args.split)
                    /\ pc' = "crashed"
                    /\ error' = "ValueError"
                    /\ UNCHANGED <<folds, holdout, defined>>
    /\ UNCHANGED <<args, files, rows, lrCalls, models, reported, answer, mi, model,
                   instantiated, noArchMsgs, summaries, j, metrics, trainLog,
                   reports, failedCfg>>

\* ------------------------------------------- logistic regression benchmark
\* the three lr_train(X_train, y_train, validation_data=(X_test, y_test), ...)
\* calls; reading a global that was never assigned raises NameError.
LrTrainCalls == 3

LogReg ==
    /\ pc = "logreg"
    /\ IF args.logreg /\ ~args.dry
       THEN IF {"X_train", "y_train", "X_test", "y_test"} \subseteq defined
            THEN /\ lrCalls' = lrCalls + LrTrainCalls
                 /\ pc' = "plan"
                 /\ error' = error
            ELSE /\ lrCalls' = lrCalls
                 /\ pc' = "crashed"
                 /\ error' = "NameError"
       ELSE /\ lrCalls' = lrCalls
            /\ pc' = "plan"
            /\ error' = error
    /\ UNCHANGED <<args, defined, files, rows, folds, holdout, models, reported,
                   answer, mi, model, instantiated, noArchMsgs, summaries, j,
                   metrics, trainLog, reports, failedCfg>>

\* ------------------------------------------------------------ planner
\* itertools.product's documented algorithm:
\*   result = [[]]
\*   for pool in pools: result = [x+[y] for x in result for y in pool]
ExtendOne(x, pool) == [i \in 1..Len(pool) |-> Append(x, pool[i])]

RECURSIVE ExtendAll(_, _)
ExtendAll(result, pool) ==
    IF Len(result) = 0 THEN <<>>
    ELSE ExtendOne(Head(result), pool) \o ExtendAll(Tail(result), pool)

RECURSIVE product(_)
product(pools) ==
    IF Len(pools) = 0 THEN << <<>> >>
    ELSE ExtendAll(product(SubSeq(pools, 1, Len(pools) - 1)), pools[Len(pools)])

\* len(args.filters) > 1 or len(args.dropout) > 1 or len(args.activation) > 1
MoreThanOne(a) ==
    Len(a.filters) > 1 \/ Len(a.dropout) > 1 \/ Len(a.activation) > 1

\* Mutant: the parallel branch permutes the filter sizes as well.
ParallelAxesWithFilters(a) == <<a.filters, a.dropout, a.activation>>

\* s = [args.dropout, args.activation]
ParallelAxes(a) == <<a.dropout, a.activation>>

\* Mutant: the axes are listed dropout first.
FullAxesDropoutFirst(a) == <<a.dropout, a.filters, a.activation>>

\* s = [args.filters, args.dropout, args.activation]
FullAxes(a) == <<a.filters, a.dropout, a.activation>>

\* models = [(args.filters[0], dropout_p, activation)] with the permanent
\* hyperparameters dropout_p = args.dropout[0], activation = args.activation[0]
Degenerate(a) == << <<a.filters[1], a.dropout[1], a.activation[1]>> >>

\* The value assigned to 'models'.
Plan(a) ==
    IF MoreThanOne(a)
    THEN IF a.model = "parallel"
         THEN product(ParallelAxes(a))
         ELSE product(FullAxes(a))
    ELSE Degenerate(a)

PlanModels ==
    /\ pc = "plan"
    /\ models' = Plan(args)
    /\ pc' = "gate"
    /\ UNCHANGED <<args, error, defined, files, rows, folds, holdout, lrCalls,
                   reported, answer, mi, model, instantiated, noArchMsgs,
                   summaries, j, metrics, trainLog, reports, failedCfg>>


\* ---------------------------------------------------- confirmation gate
\* Mutant: the loop is entered whatever the answer.
GateIgnored ==
    /\ pc = "gate"
    /\ reported' = Len(models)
    /\ \E yes \in BOOLEAN :
          /\ answer' = IF yes THEN "yes" ELSE "no"
          /\ pc' = "loop"
    /\ UNCHANGED <<args, error, defined, files, rows, folds, holdout, lrCalls,
                   models, mi, model, instantiated, noArchMsgs, summaries, j,
                   metrics, trainLog, reports, failedCfg>>

\* print("Found " + str(len(models)) + " possible models to calculate.")
\* if (query_yes_no("Do you wish to continue?")):
Gate ==
    /\ pc = "gate"
    /\ reported' = Len(models)
    /\ \E yes \in BOOLEAN :
          /\ answer' = IF yes THEN "yes" ELSE "no"
          /\ pc' = IF yes THEN "loop" ELSE "close"
    /\ UNCHANGED <<args, error, defined, files, rows, folds, holdout, lrCalls,
                   models, mi, model, instantiated, noArchMsgs, summaries, j,
                   metrics, trainLog, reports, failedCfg>>

\* ---------------------------------------------------- configuration loop
\* Mutant: for m in models[:-1]: the last configuration is left out.
NextModelSkipsLast ==
    /\ pc = "loop"
    /\ IF mi < Len(models) - 1
       THEN /\ mi' = mi + 1
            /\ pc' = "instantiate"
       ELSE /\ mi' = mi
            /\ pc' = "close"
    /\ UNCHANGED <<args, error, defined, files, rows, folds, holdout, lrCalls,
                   models, reported, answer, model, instantiated, noArchMsgs,
                   summaries, j, metrics, trainLog, reports, failedCfg>>

\* for m in models:
NextModel ==
    /\ pc = "loop"
    /\ IF mi < Len(models)
       THEN /\ mi' = mi + 1
            /\ pc' = "instantiate"
       ELSE /\ mi' = mi
            /\ pc' = "close"
    /\ UNCHANGED <<args, error, defined, files, rows, folds, holdout, lrCalls,
                   models, reported, answer, model, instantiated, noArchMsgs,
                   summaries, j, metrics, trainLog, reports, failedCfg>>

\* CNN_Simple(..., filter_size=m[0], activation=m[2], dropout_p=m[1], ...) and
\* CNN_TwoLayer(...) with the same keywords
Sequential(arch, c, m) ==
    [arch |-> arch, cfg |-> c, filter_size |-> m[1], filter_widths |-> <<>>,
     dropout_p |-> m[2], activation |-> m[3], trained |-> <<>>]

\* CNN_Parallel(..., filter_widths=args.filter_widths, activation=m[1],
\*              dropout_p=m[0], ...)
Parallel(c, m, a) ==
    [arch |-> "parallel", cfg |-> c, filter_size |-> 0,
     filter_widths |-> a.filter_widths, dropout_p |-> m[1], activation |-> m[2],
     trained |-> <<>>]

\* The attribute the parallel branch reads from the namespace.
WidthsAttr == "filter_widths"

\* Mutant: the exception is caught in the loop body, which goes on to the next
\* configuration.
RaiseCaught(name, c) ==
    /\ pc' = "endcfg"
    /\ error' = error
    /\ failedCfg' = c

\* An exception leaves the loop and the script: nothing catches it.
Raise(name, c) ==
    /\ pc' = "crashed"
    /\ error' = name
    /\ failedCfg' = c

\* The if / elif / elif / else on args.model.  A constructor (models.cnn, keras)
\* may raise; an attribute the namespace does not hold raises AttributeError.
Instantiate ==
    /\ pc = "instantiate"
    /\ \/ /\ args.model \in {"simple", "twolayer"}
          /\ \E ok \in BOOLEAN :
                IF ok
                THEN /\ model' = Sequential(args.model, mi, models[mi])
                     /\ instantiated' = Append(instantiated, model')
                     /\ defined' = defined \cup {"model"}
                     /\ pc' = "summary"
                     /\ UNCHANGED <<error, failedCfg>>
                ELSE /\ Raise("ConstructorError", mi)
                     /\ UNCHANGED <<model, instantiated, defined>>
          /\ UNCHANGED noArchMsgs
       \/ /\ args.model = "parallel"
          /\ IF WidthsAttr \in DOMAIN args
             THEN /\ model' = Parallel(mi, models[mi], args)
                  /\ instantiated' = Append(instantiated, model')
                  /\ defined' = defined \cup {"model"}
                  /\ pc' = "summary"
                  /\ UNCHANGED <<error, failedCfg>>
             ELSE /\ Raise("AttributeError", 0)
                  /\ UNCHANGED <<model, instantiated, defined>>
          /\ UNCHANGED noArchMsgs
       \/ /\ args.model \notin {"simple", "twolayer", "parallel"}
          /\ noArchMsgs' = noArchMsgs + 1
          /\ pc' = "summary"
          /\ UNCHANGED <<model, instantiated, defined, error, failedCfg>>
    /\ UNCHANGED <<args, files, rows, folds, holdout, lrCalls, models, reported,
                   answer, mi, summaries, j, metrics, trainLog, reports>>

\* print(model.summary())
Summary ==
    /\ pc = "summary"
    /\ IF "model" \in defined
       THEN /\ summaries' = Append(summaries, mi)
            /\ pc' = "drycheck"
            /\ error' = error
       ELSE /\ summaries' = summaries
            /\ pc' = "crashed"
            /\ error' = "NameError"
    /\ UNCHANGED <<args, defined, files, rows, folds, holdout, lrCalls, models,
                   reported, answer, mi, model, instantiated, noArchMsgs, j,
                   metrics, trainLog, reports, failedCfg>>

\* metrics = pd.DataFrame(index=range(1, k+1), columns=('loss', 'val', 'AUC')):
\* k rows of NaN
NaNRow == <<>>
DataFrame(k) == [i \in 1..k |-> NaNRow]

\* Mutant: the --dry switch is not looked at.
DryCheckIgnored ==
    /\ pc = "drycheck"
    /\ metrics' = DataFrame(Len(folds))
    /\ j' = 0
    /\ pc' = "fold"
    /\ UNCHANGED <<args, error, defined, files, rows, folds, holdout, lrCalls,
                   models, reported, answer, mi, model, instantiated, noArchMsgs,
                   summaries, trainLog, reports, failedCfg>>

\* if (args.dry is False): k = len(folds); metrics = ...; figs = ...
DryCheck ==
    /\ pc = "drycheck"
    /\ IF args.dry
       THEN /\ pc' = "endcfg"
            /\ UNCHANGED <<metrics, j>>
       ELSE /\ metrics' = DataFrame(Len(folds))
            /\ j' = 0
            /\ pc' = "fold"
    /\ UNCHANGED <<args, error, defined, files, rows, folds, holdout, lrCalls,
                   models, reported, answer, mi, model, instantiated, noArchMsgs,
                   summaries, trainLog, reports, failedCfg>>

\* model.nn.evaluate(X_test, y_test)[0], [1] and auc(fpr, tpr) in thousandths:
\* results of the network, fixed by the object, its training and the fold.
Loss(obj, fold) == 400 + 100 * ((obj.cfg + fold) % 3)
Val(obj, fold) == 500 + 10 * Len(obj.trained) + obj.cfg
Auc(obj, fold) == 600 + 50 * (fold % 2)

\* model.train(X_train, y_train, X_test, y_test, ...) on the object
Train(obj, fold) == [obj EXCEPT !.trained = Append(@, fold)]

\* Mutant: the row is addressed from 0, as a position, not by its label j.
SetRowZeroBased(table, row, obj, fold) ==
    [table EXCEPT ![row - 1] = <<Loss(obj, fold), Val(obj, fold), Auc(obj, fold)>>]

\* metrics.loc[j, ] = (loss, val, roc_auc)
SetRow(table, row, obj, fold) ==
    [table EXCEPT ![row] = <<Loss(obj, fold), Val(obj, fold), Auc(obj, fold)>>]

\* for j in range(1, k+1): one pass of the body, or the end of the loop
Fold ==
    /\ pc = "fold"
    /\ IF j < Len(folds)
       THEN /\ j' = j + 1
            /\ holdout' = folds[j']
            /\ defined' = defined \cup {"X_train", "X_test", "y_train", "y_test"}
            /\ \E ok \in BOOLEAN :
                  IF ok
                  THEN /\ model' = Train(model, j')
                       /\ trainLog' = Append(trainLog, <<mi, j'>>)
                       /\ metrics' = SetRow(metrics, j', model', j')
                       /\ pc' = "fold"
                       /\ UNCHANGED <<error, failedCfg>>
                  ELSE /\ Raise("TrainingError", mi)
                       /\ UNCHANGED <<model, trainLog, metrics>>
       ELSE /\ pc' = "report"
            /\ UNCHANGED <<j, holdout, defined, model, trainLog, metrics, error,
                           failedCfg>>
    /\ UNCHANGED <<args, files, rows, folds, lrCalls, models, reported, answer, mi,
                   instantiated, noArchMsgs, summaries, reports>>

\* np.mean(metrics): the column sums over the number of rows
RECURSIVE ColSum(_, _, _)
ColSum(table, col, n) ==
    IF n = 0 THEN 0 ELSE ColSum(table, col, n - 1) + table[n][col]

Mean(table) == [col \in 1..3 |-> <<ColSum(table, col, Len(table)), Len(table)>>]

\* if (args.plot is True): vis.multipage(o + "-outputs.pdf");
\*                         vis.plot_nn_graph(model.nn, to_file=o + "-model.png")
Saved(a) == IF a.plot THEN {PdfName(a), GraphName(a)} ELSE {}

\* print(metrics); print(np.mean(metrics)); the plots
Report ==
    /\ pc = "report"
    /\ reports' = Append(reports, [cfg |-> mi, table |-> metrics, mean |-> Mean(metrics)])
    /\ files' = files \cup Saved(args)
    /\ pc' = "endcfg"
    /\ UNCHANGED <<args, error, defined, rows, folds, holdout, lrCalls, models,
                   reported, answer, mi, model, instantiated, noArchMsgs,
                   summaries, j, metrics, trainLog, failedCfg>>

\* print("------...") ends the body of the configuration loop
EndModel ==
    /\ pc = "endcfg"
    /\ pc' = "loop"
    /\ UNCHANGED <<args, error, defined, files, rows, folds, holdout, lrCalls,
                   models, reported, answer, mi, model, instantiated, noArchMsgs,
                   summaries, j, metrics, trainLog, reports, failedCfg>>

\* Mutant: the plots are written at the end of the script, outside the gate.
CloseSavingPlots ==
    /\ pc = "close"
    /\ pc' = "done"
    /\ files' = files \cup Saved(args)
    /\ UNCHANGED <<args, error, defined, rows, folds, holdout, lrCalls,
                   models, reported, answer, mi, model, instantiated, noArchMsgs,
                   summaries, j, metrics, trainLog, reports, failedCfg>>

\* if (args.logfile is not None): log1.__del__()
Close ==
    /\ pc = "close"
    /\ pc' = "done"
    /\ UNCHANGED <<args, error, defined, files, rows, folds, holdout, lrCalls,
                   models, reported, answer, mi, model, instantiated, noArchMsgs,
                   summaries, j, metrics, trainLog, reports, failedCfg>>

\* ------------------------------------------------------- specifications
\* A whole run: the command line is drawn, the script stands at its first
\* statement after parse_args().
Prefix(vals, n) == SubSeq(vals, 1, n)

Init ==
    \E nf \in 0..MaxAxis, nd \in 0..MaxAxis, na \in 0..MaxAxis, m \in Modes,
       k \in (-1)..MaxK, s \in Splits, dry \in BOOLEAN, lr \in BOOLEAN,
       plot \in BOOLEAN :
        Blank(Namespace(Prefix(FilterVals, nf), Prefix(DropoutVals, nd),
                        Prefix(ActVals, na), m, k, s, dry, lr, plot),
              "logging", Rows)

Next ==
    \/ InitLogging
    \/ PermanentHyper
    \/ MakeFolds
    \/ LogReg
    \/ PlanModels
    \/ Gate
    \/ NextModel
    \/ Instantiate
    \/ Summary
    \/ DryCheck
    \/ Fold
    \/ Report
    \/ EndModel
    \/ Close

Spec == Init /\ [][Next]_vars

\* The fold provider on its own: every dataset size, --kfold and --split.
InitFolds ==
    \E n \in 2..MaxRows, k \in (-1)..(MaxK + 1), s \in Splits :
        Blank(Namespace(<<3>>, <<25>>, <<"relu">>, "simple", k, s, FALSE, FALSE, FALSE),
              "folds", n)

SpecFolds == InitFolds /\ [][MakeFolds]_vars

SpecPlan == InitPlan /\ [][PlanModels]_vars

\* ================================================================ claims
Known == {"simple", "twolayer", "parallel"}
NF == Len(args.filters)
ND == Len(args.dropout)
NA == Len(args.activation)
Singletons == NF = 1 /\ ND = 1 /\ NA = 1
SomeAxisLonger == NF > 1 \/ ND > 1 \/ NA > 1
Planned == pc = "gate"

\* The axes the mode's general product runs over.
ModeAxes ==
    IF args.model = "parallel" THEN <<args.dropout, args.activation>>
    ELSE <<args.filters, args.dropout, args.activation>>

\* C1: with one value on every axis the plan is one configuration, and it is
\* the one the mode's general Cartesian product yields: the pair
\* (dropout, activation) for 'parallel', the triple otherwise.
C1_SingletonPlanIsModeProduct ==
    (Planned /\ Singletons) =>
        /\ Len(models) = 1
        /\ Len(models[1]) = Len(ModeAxes)
        /\ \A p \in 1..Len(ModeAxes) : models[1][p] = ModeAxes[p][1]

C3_ParallelProductOrder ==
    (Planned /\ args.model = "parallel" /\ SomeAxisLonger) =>
        /\ Len(models) = ND * NA
        /\ \A i \in 1..Len(models) :
              models[i] = << args.dropout[((i - 1) \div NA) + 1],
                             args.activation[((i - 1) % NA) + 1] >>

C3_Witness ==
    /\ Planned
    /\ args.model = "parallel"
    /\ NF = 2
    /\ args.dropout = <<10, 50>>
    /\ args.activation = <<"relu", "tanh">>
    /\ models = << <<10, "relu">>, <<10, "tanh">>, <<50, "relu">>, <<50, "tanh">> >>

Ended == pc \in {"done", "crashed"}

\* C4: in mode 'parallel' every configuration of the plan gets a model built
\* with the complete list of filter sizes given with --filters.
C4_ParallelGetsAllFilters ==
    (args.model = "parallel" /\ answer = "yes" /\ Ended) =>
        /\ Len(instantiated) = Len(models)
        /\ \A i \in 1..Len(instantiated) :
              instantiated[i].filter_widths = args.filters

\* C5 as first stated: after a declined gate the run has made no training call
\* at all, has evaluated no configuration and has not failed.
C5_DeclineNoTrainingAtAll ==
    answer = "no" =>
        /\ lrCalls = 0
        /\ trainLog = <<>>
        /\ instantiated = <<>>
        /\ pc # "crashed"

\* C5, amended: after a declined gate no configuration is instantiated,
\* summarised, trained or scored and the run ends without an error; the only
\* training calls are the benchmark's lr_train calls, made before the gate
\* when --logreg is given without --dry.
C5_DeclineNoConfigurationRun ==
    answer = "no" =>
        /\ trainLog = <<>>
        /\ instantiated = <<>>
        /\ summaries = <<>>
        /\ reports = <<>>
        /\ mi = 0
        /\ error = ""
        /\ pc \in {"close", "done"}
        /\ (pc = "close" => ENABLED Close)
        /\ lrCalls = (IF args.logreg /\ ~args.dry THEN LrTrainCalls ELSE 0)

C5_Witness ==
    /\ answer = "no"
    /\ pc = "done"
    /\ Len(models) > 1
    /\ lrCalls = LrTrainCalls

\* C6 as first stated: after a declined gate no file has been created.
C6_DeclineNoFile == answer = "no" => files = {}

\* C6, amended: after a declined gate none of the result files named after
\* --outfile exists; the log file, opened before the gate, is the only file.
C6_DeclineOnlyLogFile ==
    answer = "no" =>
        /\ PdfName(args) \notin files
        /\ GraphName(args) \notin files
        /\ files = {LogName(args)}

C6_Witness ==
    /\ answer = "no"
    /\ pc = "done"
    /\ args.plot
    /\ files = {LogName(args)}

\* C7: with --dry nothing is trained, scored or recorded, by the benchmark or
\* for any configuration, and the number of planned configurations is what
\* the gate reports; only a bad argument ends a dry run before the gate.
C7_DryRunsNothing ==
    args.dry =>
        /\ lrCalls = 0
        /\ trainLog = <<>>
        /\ metrics = <<>>
        /\ reports = <<>>
        /\ \A i \in 1..Len(instantiated) : instantiated[i].trained = <<>>
        /\ model.trained = <<>>
        /\ (answer # "none" =>
               /\ reported = Len(models)
               /\ reported = (IF ~SomeAxisLonger THEN 1
                              ELSE IF args.model = "parallel" THEN ND * NA
                              ELSE NF * ND * NA))
        /\ (pc = "crashed" /\ answer = "none" => error \in {"IndexError", "ValueError"})

C7_Witness ==
    /\ args.dry
    /\ args.logreg
    /\ args.model = "simple"
    /\ pc = "done"
    /\ answer = "yes"
    /\ reported = 4
    /\ summaries = <<1, 2, 3, 4>>

K == args.kfold
\* the split ratio lies strictly between 0 and 1 and leaves a row to train on
SplitFits == 0 < args.split /\ args.split < 100 /\ args.split * rows <= 100 * (rows - 1)
Disjoint(f) == f[1] \cap f[2] = {}
Covers(f) == f[1] \cup f[2] = 0..(rows - 1)
Provided == pc # "folds"

\* C8 as first stated: one fold for k == 0 and k folds for every k > 0, each
\* fold's train and test sets disjoint and covering all rows, the k test sets
\* a partition of the rows.
C8_FoldsForEveryK ==
    (Provided /\ K >= 0 /\ SplitFits) =>
        /\ pc = "logreg"
        /\ Len(folds) = (IF K = 0 THEN 1 ELSE K)
        /\ \A i \in 1..Len(folds) : Disjoint(folds[i]) /\ Covers(folds[i])
        /\ K > 0 => \A r \in 0..(rows - 1) :
                       Cardinality({i \in 1..Len(folds) : r \in folds[i][2]}) = 1

\* C8, amended: one fold for k == 0 (and for a negative k) under a split ratio
\* strictly between 0 and 1 that leaves a row to train on, its test set
\* ceil(split * rows) rows; k folds for 2 <= k <= rows,
\* their test sets a partition of the rows into runs of rows div k or one more;
\* every fold's train and test sets disjoint and covering all rows; for k == 1
\* and for k > rows a ValueError and no fold.
C8_FoldsForValidK ==
    Provided =>
        /\ (K <= 0 /\ SplitFits) =>
              /\ pc = "logreg"
              /\ Len(folds) = 1
              /\ Disjoint(folds[1]) /\ Covers(folds[1])
              /\ 100 * Cardinality(folds[1][2]) >= args.split * rows
              /\ 100 * (Cardinality(folds[1][2]) - 1) < args.split * rows
        /\ (2 <= K /\ K <= rows) =>
              /\ pc = "logreg"
              /\ Len(folds) = K
              /\ \A i \in 1..K :
                    /\ Disjoint(folds[i]) /\ Covers(folds[i])
                    /\ Cardinality(folds[i][2]) \in {rows \div K, (rows \div K) + 1}
              /\ \A r \in 0..(rows - 1) :
                    Cardinality({i \in 1..K : r \in folds[i][2]}) = 1
        /\ (K = 1 \/ K > rows) =>
              /\ pc = "crashed"
              /\ error = "ValueError"
              /\ folds = <<>>

C8_Witness ==
    /\ pc = "logreg"
    /\ rows = 5
    /\ K = 3
    /\ folds = << <<{2, 3, 4}, {0, 1}>>, <<{0, 1, 4}, {2, 3}>>, <<{0, 1, 2, 3}, {4}>> >>

\* C9: an unknown --model is reported and is not fatal: every configuration is
\* skipped without a summary, training or scoring, and the loop runs to the
\* end of the plan.
C9_UnknownArchitectureSkipped ==
    (args.model \notin Known /\ answer = "yes") =>
        /\ pc # "crashed"
        /\ summaries = <<>>
        /\ trainLog = <<>>
        /\ (pc = "done" => noArchMsgs = Len(models))

EmptyAxis == NF = 0 \/ ND = 0 \/ NA = 0
BadSplit == ~(0 < args.split /\ args.split < 100)
BadK == K < 0 \/ K = 1

\* C11: an empty hyperparameter axis, an invalid split ratio or an invalid k
\* ends the run with an error before a fold is produced, a configuration is
\* planned or a model is trained.
C11_BadArgumentsAreFatal ==
    (EmptyAxis \/ BadSplit \/ BadK) =>
        /\ folds = <<>>
        /\ models = <<>>
        /\ lrCalls = 0
        /\ instantiated = <<>>
        /\ trainLog = <<>>
        /\ pc # "done"

\* C12: the model trained and scored on a fold carries no training from an
\* earlier fold of its configuration nor from another configuration: while
\* fold j of configuration mi is recorded, the object has been trained on
\* fold j alone and was built for configuration mi.
C12_NoSharedModelState ==
    (pc = "fold" /\ j >= 1) =>
        /\ model.cfg = mi
        /\ model.trained = <<j>>

\* What fold f of configuration c yields: the object built for c, trained on
\* the folds 1..f in turn, evaluated on fold f.
FoldObject(c, f) == [cfg |-> c, trained |-> [i \in 1..f |-> i]]
FoldResult(c, f) ==
    <<Loss(FoldObject(c, f), f), Val(FoldObject(c, f), f), Auc(FoldObject(c, f), f)>>

RECURSIVE SumOfColumn(_, _, _)
SumOfColumn(table, col, upto) ==
    IF upto = 0 THEN 0 ELSE table[upto][col] + SumOfColumn(table, col, upto - 1)

\* C13: every configuration gets a fresh table of k = len(folds) rows; while
\* its folds run, the rows up to j hold the results of its folds 1..j and the
\* rows after j are still empty; the table reported holds row by row the
\* results of that configuration's folds, and the average reported is, column
\* by column, the sum of the k rows over k.
C13_MetricsTable ==
    /\ pc \in {"fold", "report"} =>
          /\ Len(metrics) = Len(folds)
          /\ \A r \in 1..Len(metrics) :
                metrics[r] = (IF r <= j THEN FoldResult(mi, r) ELSE <<>>)
    /\ \A r \in 1..Len(reports) :
          /\ reports[r].cfg = r
          /\ Len(reports[r].table) = Len(folds)
          /\ \A f \in 1..Len(folds) : reports[r].table[f] = FoldResult(r, f)
          /\ \A col \in 1..3 :
                /\ reports[r].mean[col][2] = Len(folds)
                /\ reports[r].mean[col][1] =
                       SumOfColumn(reports[r].table, col, Len(folds))
                /\ Len(folds) = 1 =>
                       reports[r].mean[col][1] = reports[r].table[1][col]

\* three folds with losses 0.5, 0.6, 0.4 and the mean loss 1.5 / 3 = 0.5
C13_Witness ==
    /\ Len(reports) >= 3
    /\ Len(folds) = 3
    /\ reports[3].table[1][1] = 500
    /\ reports[3].table[2][1] = 600
    /\ reports[3].table[3][1] = 400
    /\ reports[3].mean[1] = <<1500, 3>>

\* a confirmed run that trains, with an architecture the script builds
TrainingRun ==
    /\ answer = "yes"
    /\ ~args.dry
    /\ args.model \in {"simple", "twolayer"}
    /\ failedCfg = 0

C14_InOrder ==
    TrainingRun =>
        /\ \A t \in 1..Len(trainLog) :
              trainLog[t] = << ((t - 1) \div Len(folds)) + 1,
                               ((t - 1) % Len(folds)) + 1 >>
        /\ pc = "fold" =>
              /\ Len(trainLog) = (mi - 1) * Len(folds) + j
              /\ \A r \in 1..j : metrics[r] # <<>>
        /\ Len(reports) = (IF pc \in {"endcfg", "loop", "close", "done"} THEN mi
                           ELSE mi - 1)
        /\ pc = "done" =>
              /\ Len(trainLog) = Len(models) * Len(folds)
              /\ Len(reports) = Len(models)

FoldsKept == pc \notin {"logging", "hyper", "folds"} => folds' = folds

\* C14: on a confirmed run without --dry, with 'simple' or 'twolayer' and no
\* failure, the folds computed before the loop are never changed, and the
\* training calls are one per (configuration, fold), configurations in plan
\* order and folds in order 1..k within each, len(models) * len(folds) in all;
\* each call's metric row is recorded before the next call is made.
C14_TrainingSequence == []C14_InOrder /\ [][FoldsKept]_vars

C14_Witness ==
    /\ TrainingRun
    /\ pc = "done"
    /\ Len(folds) = 2
    /\ trainLog = << <<1, 1>>, <<1, 2>>, <<2, 1>>, <<2, 2>>, <<3, 1>>, <<3, 2>>,
                     <<4, 1>>, <<4, 2>> >>

HoldoutNames == {"X_train", "y_train", "X_test", "y_test"}

\* C15: when the benchmark is about to run (--logreg without --dry), the
\* hold-out data it reads has been assigned by the fold provider, whatever
\* --kfold is.
C15_BenchmarkSplitDefined ==
    (pc = "logreg" /\ args.logreg /\ ~args.dry) => HoldoutNames \subseteq defined

====
